---- MODULE Spec2Model ----
(***************************************************************************)
(* A model of src/pack.rs: the format compiler                             *)
(* (PackingDescriptor::sequence_from), Pack::from, Pack::pack / pack_impl  *)
(* and Pack::unpack / unpack_impl.                                         *)
(*                                                                         *)
(* Representation.  TLC's integers are 32 bits wide, so every quantity     *)
(* that is wider in the program is a sequence of bytes:                    *)
(*   - a usize (running_length) is 8 little-endian bytes;                  *)
(*   - a Godot int (the i64 inside a Variant) is a mathematical integer    *)
(*     [neg, mag] with mag its magnitude in little-endian base-256 digits  *)
(*     without leading zero digits;                                        *)
(*   - a Godot float (f64) is its IEEE-754 bit pattern, 8 big-endian bytes.*)
(* A format string is a sequence of one-character strings, a buffer a      *)
(* sequence of bytes 0..255.                                               *)
(***************************************************************************)
EXTENDS Integers, Sequences, FiniteSets, TLC

VARIABLES native, overflow_checks, self, call

vars == <<native, overflow_checks, self, call>>

(***************************************************************************)
(* Bounds of the model.                                                    *)
(***************************************************************************)
\* Longest format string drawn by the codec specification.
MaxFormatLen == 3
\* Longest format string drawn by the layout specification.
MaxLayoutLen == 3
\* Longest format string drawn by the numeric round-trip specification.
MaxNumericLen == 2
\* Longest run of decimal digits drawn in front of a token.
MaxDigitRun == 20
\* Most input values handed to pack beyond the descriptor's field count.
MaxExtraValues == 1

(***************************************************************************)
(* Bytes and sequences of bytes.                                           *)
(***************************************************************************)
Byte == 0..255

Min(a, b) == IF a < b THEN a ELSE b

Max(a, b) == IF a > b THEN a ELSE b

\* A sequence given as a function, as an explicit tuple (TLC then evaluates
\* its elements once).
Tuple(f) == f \o <<>>

Reverse(s) == Tuple([i \in 1..Len(s) |-> s[Len(s) + 1 - i]])

Zeros(n) == Tuple([i \in 1..n |-> 0])

\* s followed by zero bytes up to length n.
PadTo(s, n) == Tuple([i \in 1..n |-> IF i <= Len(s) THEN s[i] ELSE 0])

\* The bytes of r from position lo + 1 to position hi: the range lo..hi of a slice.
Slice(s, lo, hi) == Tuple([i \in 1..(hi - lo) |-> s[lo + i]])

\* s with the range starting at offset lo overwritten by the bytes src
\* (slice[lo..lo + src.len()].copy_from_slice(src)).
CopyInto(s, lo, src) ==
    Tuple([i \in 1..Len(s) |-> IF i > lo /\ i <= lo + Len(src) THEN src[i - lo] ELSE s[i]])

\* Sequences over S of length at most n.
RECURSIVE SeqsUpTo(_, _)
SeqsUpTo(S, n) ==
    IF n = 0 THEN {<<>>}
    ELSE LET shorter == SeqsUpTo(S, n - 1)
         IN  {<<>>} \cup {Append(s, c) : s \in shorter, c \in S}

RECURSIVE SumLengths(_)
SumLengths(es) ==
    IF es = <<>> THEN 0 ELSE es[1].length + SumLengths(Tail(es))

(***************************************************************************)
(* Little-endian multi-byte arithmetic.                                    *)
(***************************************************************************)
\* Drop the zero digits at the most significant end.
RECURSIVE Normalize(_)
Normalize(m) ==
    IF m = <<>> THEN <<>>
    ELSE IF m[Len(m)] = 0 THEN Normalize(SubSeq(m, 1, Len(m) - 1))
    ELSE m

\* Bitwise complement of every byte.
NotBytes(m) == Tuple([i \in 1..Len(m) |-> 255 - m[i]])

\* m + carry at fixed width, wrapping.
RECURSIVE IncBytes(_, _)
IncBytes(m, carry) ==
    IF m = <<>> THEN <<>>
    ELSE <<(m[1] + carry) % 256>> \o IncBytes(Tail(m), (m[1] + carry) \div 256)

\* Two's complement negation at the width of m.
NegBytes(m) == IncBytes(NotBytes(m), 1)

\* The digits of a natural number that fits TLC's integers.
RECURSIVE NatToBytes(_)
NatToBytes(n) == IF n = 0 THEN <<>> ELSE <<n % 256>> \o NatToBytes(n \div 256)

\* The value of at most three digits.
RECURSIVE BytesToNat(_)
BytesToNat(m) == IF m = <<>> THEN 0 ELSE m[1] + 256 * BytesToNat(Tail(m))

AllZero(m) == \A i \in 1..Len(m) : m[i] = 0

(***************************************************************************)
(* usize arithmetic of the format compiler (64-bit target).                *)
(***************************************************************************)
UsizeBytes == 8

UsizeZero == Zeros(UsizeBytes)

\* x * 10 + d over the limbs of x, with the carry out of the top limb:
\* carry # 0 iff `running_length * 10 + digit` overflows usize.
RECURSIVE MulAdd10(_, _)
MulAdd10(x, carry) ==
    IF x = <<>> THEN [limbs |-> <<>>, carry |-> carry]
    ELSE LET t == x[1] * 10 + carry
             r == MulAdd10(Tail(x), t \div 256)
         IN  [limbs |-> <<t % 256>> \o r.limbs, carry |-> r.carry]

U16_MAX == 65535

\* running_length.clamp(1, u16::MAX as _)
clamp(x) ==
    IF ~AllZero(Slice(x, 2, UsizeBytes)) THEN U16_MAX
    ELSE Max(1, BytesToNat(Slice(x, 0, 2)))

(***************************************************************************)
(* The format compiler: PackingDescriptor::sequence_from.                  *)
(***************************************************************************)
Digits == {"0", "1", "2", "3", "4", "5", "6", "7", "8", "9"}

\* c.to_digit(10)
to_digit(c) ==
    CASE c = "0" -> 0 [] c = "1" -> 1 [] c = "2" -> 2 [] c = "3" -> 3
      [] c = "4" -> 4 [] c = "5" -> 5 [] c = "6" -> 6 [] c = "7" -> 7
      [] c = "8" -> 8 [] c = "9" -> 9

OrderTokens == {"@", "=", "<", ">", "!"}

FixedTokens == {"?", "c", "b", "B", "h", "H", "i", "I", "l", "L", "q", "Q", "f", "d"}

Tokens == OrderTokens \cup {"s", "x"} \cup FixedTokens

\* The network order taken for little-endian.
NETWORK_little == "LittleEndian"

\* Endianness::NETWORK
NETWORK == "BigEndian"

\* The type and core::mem::size_of of each fixed-width token.
FixedField(c) ==
    CASE c = "?" -> [ty |-> "Bool", length |-> 1]
      [] c = "c" -> [ty |-> "Character", length |-> 1]
      [] c = "b" -> [ty |-> "Char", length |-> 1]
      [] c = "B" -> [ty |-> "UnsignedChar", length |-> 1]
      [] c = "h" -> [ty |-> "Short", length |-> 2]
      [] c = "H" -> [ty |-> "UnsignedShort", length |-> 2]
      [] c = "i" -> [ty |-> "Int", length |-> 4]
      [] c = "I" -> [ty |-> "UnsignedInt", length |-> 4]
      [] c = "l" -> [ty |-> "Long", length |-> 4]
      [] c = "L" -> [ty |-> "UnsignedLong", length |-> 4]
      [] c = "q" -> [ty |-> "LongLong", length |-> 8]
      [] c = "Q" -> [ty |-> "UnsignedLongLong", length |-> 8]
      [] c = "f" -> [ty |-> "Float", length |-> 4]
      [] c = "d" -> [ty |-> "Double", length |-> 8]

\* post_increment returning the offset after the increment.
post_increment_after(offset, count) == [copy |-> offset + count, offset |-> offset + count]

\* The closure post_increment: the offset before, and the offset advanced.
post_increment(offset, count) == [copy |-> offset, offset |-> offset + count]

\* fields.push(FieldDescriptior { ty, length, offset: post_increment(length) }).
\* entries lists every emission, padding included, for the layout properties.
PushField(st, ty, length) ==
    LET p == post_increment(st.offset, length)
    IN  [st EXCEPT !.fields = Append(@, [ty |-> ty, length |-> length, offset |-> p.copy]),
                   !.offset = p.offset,
                   !.entries = Append(@, [kind |-> "field", length |-> length])]

\* Padding pushed as a field of its own.
SkipPad_pushed(st, length) == PushField(st, "String", length)

\* 'x': let _ = post_increment(length): the offset advances, no field is pushed.
SkipPad(st, length) ==
    LET p == post_increment(st.offset, length)
    IN  [st EXCEPT !.offset = p.offset,
                   !.entries = Append(@, [kind |-> "pad", length |-> length])]

\* running_length = running_length * 10 + digit.  With overflow checks the
\* build panics on overflow, without them the result wraps modulo 2^64.
AccumulateDigit(st, c, checks) ==
    LET r == MulAdd10(st.running_length, to_digit(c))
    IN  IF r.carry # 0 /\ checks THEN [st EXCEPT !.tag = "Panic"]
        ELSE [st EXCEPT !.running_length = r.limbs]

\* The match on a non-digit character, without the reset that follows it.
MatchToken(st, c, nat) ==
    CASE c \in {"@", "="} -> [st EXCEPT !.order = nat]
      [] c = "<" -> [st EXCEPT !.order = "LittleEndian"]
      [] c = ">" -> [st EXCEPT !.order = "BigEndian"]
      [] c = "!" -> [st EXCEPT !.order = NETWORK]
      [] c = "s" -> PushField(st, "String", clamp(st.running_length))
      [] c = "x" -> SkipPad(st, clamp(st.running_length))
      [] c \in FixedTokens -> PushField(st, FixedField(c).ty, FixedField(c).length)
      [] OTHER -> [st EXCEPT !.tag = "Err"]

\* One iteration of `for c in seq.chars()`.
ScanChar(st, c, nat, checks) ==
    IF c \in Digits THEN AccumulateDigit(st, c, checks)
    ELSE LET m == MatchToken(st, c, nat)
         IN  IF m.tag = "Err" THEN m ELSE [m EXCEPT !.running_length = UsizeZero]

ScanInit(nat) ==
    [tag |-> "Scan", order |-> nat, fields |-> <<>>,
     running_length |-> UsizeZero, offset |-> 0, entries |-> <<>>]

\* The loop over the characters from position i on; an Err return or a
\* panic leaves the loop.
RECURSIVE ScanFrom(_, _, _, _, _)
ScanFrom(seq, i, st, nat, checks) ==
    IF i > Len(seq) \/ st.tag # "Scan" THEN st
    ELSE ScanFrom(seq, i + 1, ScanChar(st, seq[i], nat, checks), nat, checks)

Scan(seq, nat, checks) == ScanFrom(seq, 1, ScanInit(nat), nat, checks)

\* sequence_from(seq): Ok(PackingDescriptor { fields, size, endianness }),
\* Err(()) or a panic.
sequence_from(seq, nat, checks) ==
    LET st == Scan(seq, nat, checks)
    IN  IF st.tag = "Scan"
        THEN [tag |-> "Ok",
              descriptor |-> [fields |-> st.fields, size |-> st.offset,
                              endianness |-> st.order]]
        ELSE [tag |-> st.tag]

(***************************************************************************)
(* Bits (most significant first) for the IEEE-754 conversions.             *)
(***************************************************************************)
Pow2(n) == CASE n = 0 -> 1 [] n = 1 -> 2 [] n = 2 -> 4 [] n = 3 -> 8
             [] n = 4 -> 16 [] n = 5 -> 32 [] n = 6 -> 64 [] n = 7 -> 128

\* The bits of big-endian bytes.
BytesToBits(bs) ==
    Tuple([i \in 1..(8 * Len(bs)) |-> (bs[((i - 1) \div 8) + 1] \div Pow2(7 - ((i - 1) % 8))) % 2])

\* The big-endian bytes of a multiple of eight bits.
BitsToBytes(bits) ==
    Tuple([j \in 1..(Len(bits) \div 8) |->
        128 * bits[8 * j - 7] + 64 * bits[8 * j - 6] + 32 * bits[8 * j - 5]
        + 16 * bits[8 * j - 4] + 8 * bits[8 * j - 3] + 4 * bits[8 * j - 2]
        + 2 * bits[8 * j - 1] + bits[8 * j]])

RECURSIVE BitsToNat(_)
BitsToNat(bits) ==
    IF bits = <<>> THEN 0
    ELSE 2 * BitsToNat(SubSeq(bits, 1, Len(bits) - 1)) + bits[Len(bits)]

RECURSIVE NatToBits(_, _)
NatToBits(n, w) ==
    IF w = 0 THEN <<>> ELSE NatToBits(n \div 2, w - 1) \o <<n % 2>>

Bits(b, n) == Tuple([i \in 1..n |-> b])

\* bits + 1 at the same width.
RECURSIVE IncBits(_)
IncBits(bits) ==
    IF bits = <<>> THEN <<>>
    ELSE IF bits[Len(bits)] = 0 THEN SubSeq(bits, 1, Len(bits) - 1) \o <<1>>
    ELSE IncBits(SubSeq(bits, 1, Len(bits) - 1)) \o <<0>>

AnyOne(bits) == \E i \in 1..Len(bits) : bits[i] = 1

\* Position of the first 1 bit (bits holds one).
LeadingOne(bits) == CHOOSE p \in 1..Len(bits) : bits[p] = 1 /\ \A q \in 1..(p - 1) : bits[q] = 0

\* Round to nearest, ties to even: whether `kept` is incremented when the
\* bits `dropped` below it are cut off.
RoundsUp(kept, dropped) ==
    /\ dropped # <<>>
    /\ dropped[1] = 1
    /\ \/ AnyOne(Tail(dropped))
       \/ (kept # <<>> /\ kept[Len(kept)] = 1)

\* `value as f32` for an f64: the f32's big-endian bytes.
F64ToF32(b8) ==
    LET b == BytesToBits(b8)
        s == b[1]
        e == BitsToNat(SubSeq(b, 2, 12))
        m == SubSeq(b, 13, 64)
        E == e - 1023
        inf == Bits(1, 8) \o Bits(0, 23)
        body ==
            CASE e = 2047 /\ ~AnyOne(m) -> inf
              [] e = 2047 /\ AnyOne(m) -> Bits(1, 8) \o <<1>> \o SubSeq(m, 2, 23)
              [] e = 0 -> Bits(0, 31)
              [] e \in 1..2046 /\ E > 127 -> inf
              [] e \in 1..2046 /\ E \in (-126)..127 ->
                    LET kept == NatToBits(E + 127, 8) \o SubSeq(m, 1, 23)
                    IN  IF RoundsUp(kept, SubSeq(m, 24, 52)) THEN IncBits(kept) ELSE kept
              [] e \in 1..2046 /\ E < -126 ->
                    \* subnormal result: the 53-bit significand shifted right
                    LET k == -(E + 97)
                        full == Bits(0, 31) \o <<1>> \o m
                        keep == IF k >= 84 THEN Bits(0, 31) ELSE SubSeq(full, 54 - Min(k, 53), 84 - k)
                        kept == Bits(0, 31 - Len(keep)) \o keep
                        dropped == IF k >= 84 THEN Bits(0, k - 84) \o full
                                   ELSE SubSeq(full, 85 - k, 84)
                    IN  IF RoundsUp(kept, dropped) THEN IncBits(kept) ELSE kept
    IN  BitsToBytes(<<s>> \o body)

\* `value as f64` for an f32 (exact): the f64's big-endian bytes.
F32ToF64(b4) ==
    LET b == BytesToBits(b4)
        s == b[1]
        e == BitsToNat(SubSeq(b, 2, 9))
        m == SubSeq(b, 10, 32)
        body ==
            CASE e = 255 /\ ~AnyOne(m) -> Bits(1, 11) \o Bits(0, 52)
              [] e = 255 /\ AnyOne(m) -> Bits(1, 11) \o <<1>> \o SubSeq(m, 2, 23) \o Bits(0, 29)
              [] e = 0 /\ ~AnyOne(m) -> Bits(0, 63)
              [] e = 0 /\ AnyOne(m) ->
                    LET p == LeadingOne(m)
                    IN  NatToBits(897 - p, 11) \o SubSeq(m, p + 1, 23) \o Bits(0, 29 + p)
              [] e \in 1..254 -> NatToBits(e + 896, 11) \o m \o Bits(0, 29)
    IN  BitsToBytes(<<s>> \o body)

\* Godot's int -> float conversion (a C++ cast of int64_t to double).
I64ToF64(z) ==
    IF z.mag = <<>> THEN Zeros(8)
    ELSE LET all == BytesToBits(Reverse(z.mag))
             p == LeadingOne(all)
             rest == SubSeq(all, p + 1, Len(all))
             n == Len(rest)
             kept == NatToBits(n + 1023, 11)
                     \o (IF n <= 52 THEN rest \o Bits(0, 52 - n) ELSE SubSeq(rest, 1, 52))
             dropped == IF n <= 52 THEN <<>> ELSE SubSeq(rest, 53, n)
             body == IF RoundsUp(kept, dropped) THEN IncBits(kept) ELSE kept
         IN  BitsToBytes(<<IF z.neg THEN 1 ELSE 0>> \o body)

\* Godot's float -> int conversion (a C++ cast of double to int64_t):
\* truncation toward zero.  The cast is undefined for a value outside the
\* range of int64_t (and for NaN), which no arm below covers.
F64ToI64(b8) ==
    LET b == BytesToBits(b8)
        s == b[1]
        e == BitsToNat(SubSeq(b, 2, 12))
        m == SubSeq(b, 13, 64)
        E == e - 1023
        full == <<1>> \o m
        int == IF E <= 52 THEN SubSeq(full, 1, E + 1) ELSE full \o Bits(0, E - 52)
        padded == Bits(0, 64 - Len(int)) \o int
    IN  CASE e = 0 \/ (e < 2047 /\ E < 0) -> [neg |-> FALSE, mag |-> <<>>]
          [] e < 2047 /\ E \in 0..62 ->
                [neg |-> s = 1, mag |-> Normalize(Reverse(BitsToBytes(padded)))]
          [] E = 63 /\ s = 1 /\ ~AnyOne(m) ->
                [neg |-> TRUE, mag |-> Zeros(7) \o <<128>>]

(***************************************************************************)
(* Dynamic values (Godot Variants): text, boolean, integer, float.         *)
(***************************************************************************)
Text(bytes) == [kind |-> "Text", bytes |-> bytes]

Boolean(b) == [kind |-> "Bool", b |-> b]

\* A Godot int from a TLC integer.
Z(n) == [kind |-> "Int", neg |-> n < 0, mag |-> NatToBytes(IF n < 0 THEN -n ELSE n)]

\* A Godot int from its sign and the little-endian digits of its magnitude.
ZBytes(neg, mag) == [kind |-> "Int", neg |-> neg, mag |-> mag]

\* A Godot float from the big-endian bytes of its f64 bit pattern.
Float(bits) == [kind |-> "Float", bits |-> bits]

\* The Rust numeric type behind a field type (the $T of the two macros).
RustType(ty) ==
    CASE ty = "Char" -> "i8"
      [] ty = "UnsignedChar" -> "u8"
      [] ty = "Short" -> "i16"
      [] ty = "UnsignedShort" -> "u16"
      [] ty \in {"Long", "Int"} -> "i32"
      [] ty \in {"UnsignedInt", "UnsignedLong"} -> "u32"
      [] ty = "LongLong" -> "i64"
      [] ty = "UnsignedLongLong" -> "u64"
      [] ty = "Float" -> "f32"
      [] ty = "Double" -> "f64"

IntegerTypes == {"i8", "u8", "i16", "u16", "i32", "u32", "i64", "u64"}

FloatTypes == {"f32", "f64"}

\* core::mem::size_of::<T>()
size_of(T) ==
    CASE T \in {"i8", "u8"} -> 1
      [] T \in {"i16", "u16"} -> 2
      [] T \in {"i32", "u32", "f32"} -> 4
      [] T \in {"i64", "u64", "f64"} -> 8

Signed(T) == T \in {"i8", "i16", "i32", "i64"}

\* T::try_from(i64) succeeds: z lies in T's range.
InRange(z, T) ==
    LET w == size_of(T)
        n == Len(z.mag)
    IN  IF Signed(T)
        THEN \/ n < w
             \/ n = w /\ z.mag[w] < 128
             \/ n = w /\ z.neg /\ z.mag[w] = 128 /\ AllZero(SubSeq(z.mag, 1, w - 1))
        ELSE ~z.neg /\ n <= w

\* Variant::try_to_relaxed::<T>() for a numeric T: the value as a T, or a
\* conversion error.  An integer T goes through Godot's int (int stays,
\* float is truncated, text does not convert) and then T::try_from; a float T
\* goes through Godot's float (float stays, int is converted, text does not
\* convert) and then `as f32` for f32.  An integer result is the integer, a
\* float result the big-endian bytes of its bit pattern.
try_to_relaxed(variant, T) ==
    IF T \in IntegerTypes
    THEN CASE variant.kind = "Text" -> [ok |-> FALSE]
           [] variant.kind = "Int" ->
                IF InRange(variant, T)
                THEN [ok |-> TRUE, value |-> [neg |-> variant.neg, mag |-> variant.mag]]
                ELSE [ok |-> FALSE]
           [] variant.kind = "Float" ->
                LET z == F64ToI64(variant.bits)
                IN  IF InRange(z, T) THEN [ok |-> TRUE, value |-> z] ELSE [ok |-> FALSE]
    ELSE CASE variant.kind = "Text" -> [ok |-> FALSE]
           [] variant.kind \in {"Int", "Float"} ->
                LET f == IF variant.kind = "Int" THEN I64ToF64(variant) ELSE variant.bits
                IN  [ok |-> TRUE, value |-> IF T = "f32" THEN F64ToF32(f) ELSE f]

\* Variant::try_to_relaxed::<bool>()
try_to_relaxed_bool(variant) ==
    CASE variant.kind = "Bool" -> [ok |-> TRUE, value |-> variant.b]
      [] variant.kind = "Int" -> [ok |-> TRUE, value |-> variant.mag # <<>>]
      [] variant.kind = "Float" ->
            [ok |-> TRUE, value |-> ~AllZero(Tail(variant.bits)) \/ variant.bits[1] % 128 # 0]
      [] variant.kind = "Text" -> [ok |-> FALSE]

\* value.to_le_bytes()
to_le_bytes(T, value) ==
    IF T \in IntegerTypes
    THEN IF value.neg THEN NegBytes(PadTo(value.mag, size_of(T)))
         ELSE PadTo(value.mag, size_of(T))
    ELSE Reverse(value)

\* value.to_be_bytes()
to_be_bytes(T, value) == Reverse(to_le_bytes(T, value))

\* from_le_bytes reading every integer type as unsigned.
from_le_bytes_unsigned(T, bytes) ==
    IF T \in IntegerTypes THEN [neg |-> FALSE, mag |-> Normalize(bytes)]
    ELSE Reverse(bytes)

\* <T>::from_le_bytes(bytes)
from_le_bytes(T, bytes) ==
    IF T \in IntegerTypes
    THEN IF Signed(T) /\ bytes[Len(bytes)] >= 128
         THEN [neg |-> TRUE, mag |-> Normalize(NegBytes(bytes))]
         ELSE [neg |-> FALSE, mag |-> Normalize(bytes)]
    ELSE Reverse(bytes)

\* <T>::from_be_bytes(bytes)
from_be_bytes(T, bytes) == from_le_bytes(T, Reverse(bytes))

\* extracted.to_variant(): an integer becomes a Godot int (a u64 is cast to
\* i64, wrapping), an f32 is widened to a Godot float.
to_variant(T, extracted) ==
    CASE T = "u64" ->
            LET z == from_le_bytes("i64", to_le_bytes("u64", extracted))
            IN  ZBytes(z.neg, z.mag)
      [] T \in IntegerTypes \ {"u64"} -> ZBytes(extracted.neg, extracted.mag)
      [] T = "f32" -> Float(F32ToF64(extracted))
      [] T = "f64" -> Float(extracted)

(***************************************************************************)
(* Text: Variant::to_string, UTF-8.                                        *)
(***************************************************************************)
\* mag divided by ten: quotient digits (little-endian) and remainder.
RECURSIVE DivMod10(_)
DivMod10(mag) ==
    IF mag = <<>> THEN [q |-> <<>>, r |-> 0]
    ELSE LET hi == DivMod10(Tail(mag))
             t == hi.r * 256 + mag[1]
         IN  [q |-> <<t \div 10>> \o hi.q, r |-> t % 10]

\* The ASCII decimal digits of a magnitude, most significant first.
RECURSIVE DecimalDigits(_)
DecimalDigits(mag) ==
    LET d == DivMod10(mag)
        q == Normalize(d.q)
    IN  (IF q = <<>> THEN <<>> ELSE DecimalDigits(q)) \o <<48 + d.r>>

\* variant.to_string().as_bytes(): text is itself, a boolean is "true" or
\* "false", an integer its decimal digits.  (A float is formatted by the
\* engine; no float is drawn for a text field.)
to_string(variant) ==
    CASE variant.kind = "Text" -> variant.bytes
      [] variant.kind = "Bool" ->
            IF variant.b THEN <<116, 114, 117, 101>> ELSE <<102, 97, 108, 115, 101>>
      [] variant.kind = "Int" ->
            (IF variant.neg THEN <<45>> ELSE <<>>) \o DecimalDigits(variant.mag)

Cont(b) == b \in 128..191

\* str::from_utf8(bytes).is_ok(): the well-formed byte sequences of UTF-8.
RECURSIVE Utf8Valid(_)
Utf8Valid(bs) ==
    IF bs = <<>> THEN TRUE
    ELSE LET n == Len(bs)
             b1 == bs[1]
             rest(k) == Utf8Valid(SubSeq(bs, k + 1, n))
         IN  CASE b1 <= 127 -> rest(1)
               [] b1 \in 194..223 -> n >= 2 /\ Cont(bs[2]) /\ rest(2)
               [] b1 = 224 -> n >= 3 /\ bs[2] \in 160..191 /\ Cont(bs[3]) /\ rest(3)
               [] b1 \in (225..236) \cup {238, 239} ->
                     n >= 3 /\ Cont(bs[2]) /\ Cont(bs[3]) /\ rest(3)
               [] b1 = 237 -> n >= 3 /\ bs[2] \in 128..159 /\ Cont(bs[3]) /\ rest(3)
               [] b1 = 240 ->
                     n >= 4 /\ bs[2] \in 144..191 /\ Cont(bs[3]) /\ Cont(bs[4]) /\ rest(4)
               [] b1 \in 241..243 ->
                     n >= 4 /\ Cont(bs[2]) /\ Cont(bs[3]) /\ Cont(bs[4]) /\ rest(4)
               [] b1 = 244 ->
                     n >= 4 /\ bs[2] \in 128..143 /\ Cont(bs[3]) /\ Cont(bs[4]) /\ rest(4)
               [] OTHER -> FALSE

\* String::push(char::from(value)): the UTF-8 encoding of the code point value.
char_from(value) ==
    IF value < 128 THEN <<value>> ELSE <<192 + (value \div 64), 128 + (value % 64)>>

(***************************************************************************)
(* Pack::pack and pack_impl.                                               *)
(***************************************************************************)
\* (descriptor.offset)..(descriptor.offset + descriptor.length)
Bounds(descriptor) ==
    [start |-> descriptor.offset, end |-> descriptor.offset + descriptor.length]

\* write_variant_as! leaving the field alone when the value does not convert.
write_variant_as_lenient(variant, slice, bounds, endianess, T) ==
    LET r == try_to_relaxed(variant, T)
    IN  [tag |-> "Run",
         slice |-> IF r.ok
                   THEN CopyInto(slice, bounds.start,
                                 IF endianess = "BigEndian" THEN to_be_bytes(T, r.value)
                                 ELSE to_le_bytes(T, r.value))
                   ELSE slice]

\* The macro write_variant_as!: the slice with the value's bytes written over
\* the bounds in the descriptor's order, or the Err return of pack_impl.
write_variant_as(variant, slice, bounds, endianess, T) ==
    LET r == try_to_relaxed(variant, T)
    IN  IF r.ok
        THEN [tag |-> "Run",
              slice |-> CopyInto(slice, bounds.start,
                                 IF endianess = "BigEndian" THEN to_be_bytes(T, r.value)
                                 ELSE to_le_bytes(T, r.value))]
        ELSE [tag |-> "Err", slice |-> slice]

\* The text copied whole, whatever the field's length.
write_string_whole(variant, slice, bounds, length) ==
    [tag |-> "Run", slice |-> CopyInto(slice, bounds.start, to_string(variant))]

\* FieldType::String: the first min(bytes.len(), length) bytes of the text.
write_string(variant, slice, bounds, length) ==
    LET bytes == to_string(variant)
        min_size == Min(Len(bytes), length)
    IN  [tag |-> "Run", slice |-> CopyInto(slice, bounds.start, SubSeq(bytes, 1, min_size))]

\* FieldType::Character: the first byte of the text, if it has one.
write_character(variant, slice, bounds) ==
    LET bytes == to_string(variant)
    IN  [tag |-> "Run",
         slice |-> IF bytes # <<>> THEN CopyInto(slice, bounds.start, <<bytes[1]>>) ELSE slice]

\* FieldType::Bool: `value as u8` when the value converts, nothing otherwise.
write_bool(variant, slice, bounds) ==
    LET r == try_to_relaxed_bool(variant)
    IN  [tag |-> "Run",
         slice |-> IF r.ok THEN CopyInto(slice, bounds.start, <<IF r.value THEN 1 ELSE 0>>)
                   ELSE slice]

\* The body of the loop of pack_impl: `match descriptor.ty`.
PackField(variant, slice, descriptor, endianess) ==
    CASE descriptor.ty = "String" ->
            write_string(variant, slice, Bounds(descriptor), descriptor.length)
      [] descriptor.ty = "Character" -> write_character(variant, slice, Bounds(descriptor))
      [] descriptor.ty = "Bool" -> write_bool(variant, slice, Bounds(descriptor))
      [] OTHER ->
            write_variant_as(variant, slice, Bounds(descriptor), endianess,
                             RustType(descriptor.ty))

\* for (variant, descriptor) in data.iter_shared().zip(fields.iter()), from
\* pair i on: the zip ends with the shorter of the two.
RECURSIVE PackLoop(_, _, _, _, _)
PackLoop(slice, data, fields, i, endianess) ==
    IF i > Min(Len(data), Len(fields)) THEN [tag |-> "Ok", output |-> slice]
    ELSE LET r == PackField(data[i], slice, fields[i], endianess)
         IN  IF r.tag = "Err" THEN [tag |-> "Err"]
             ELSE PackLoop(r.slice, data, fields, i + 1, endianess)

\* pack_impl refusing a value count other than the field count.
pack_impl_strict(descriptor, data) ==
    IF Len(data) # Len(descriptor.fields) THEN [tag |-> "Err"]
    ELSE PackLoop(Zeros(descriptor.size), data, descriptor.fields, 1, descriptor.endianness)

\* pack_impl(&self, data): Ok(output) or Err(()).  output is resized to
\* descriptor.size and filled with 0.
pack_impl(descriptor, data) ==
    PackLoop(Zeros(descriptor.size), data, descriptor.fields, 1, descriptor.endianness)

Nil == [kind |-> "Nil"]

\* match self.pack_impl(data) { Ok(result) => Variant::from(result), Err(_) => nil }
pack_match(r) ==
    IF r.tag = "Ok" THEN [kind |-> "PackedByteArray", bytes |-> r.output] ELSE Nil

\* Pack::pack(&self, data) -> Variant
pack(descriptor, data) == pack_match(pack_impl(descriptor, data))

(***************************************************************************)
(* Pack::unpack and unpack_impl.                                           *)
(***************************************************************************)
\* The macro read_variant_from!
read_variant_from(result, data, bounds, endianness, T) ==
    LET bytes == Slice(data, bounds.start, bounds.end)
        extracted == IF endianness = "BigEndian" THEN from_be_bytes(T, bytes)
                     ELSE from_le_bytes(T, bytes)
    IN  [tag |-> "Run", result |-> Append(result, to_variant(T, extracted))]

\* FieldType::String: str::from_utf8(&data[bounds]).map(GString::from).unwrap()
read_string(result, data, bounds) ==
    LET bytes == Slice(data, bounds.start, bounds.end)
    IN  IF Utf8Valid(bytes) THEN [tag |-> "Run", result |-> Append(result, Text(bytes))]
        ELSE [tag |-> "Panic", result |-> result]

\* FieldType::Character: a one-character string from data[field.offset]
read_character(result, data, offset) ==
    [tag |-> "Run", result |-> Append(result, Text(char_from(data[offset + 1])))]

\* FieldType::Bool: data[field.offset] != 0
read_bool(result, data, offset) ==
    [tag |-> "Run", result |-> Append(result, Boolean(data[offset + 1] # 0))]

\* The body of the loop of unpack_impl: `match field.ty`.
UnpackField(result, data, field, endianness) ==
    CASE field.ty = "String" -> read_string(result, data, Bounds(field))
      [] field.ty = "Character" -> read_character(result, data, field.offset)
      [] field.ty = "Bool" -> read_bool(result, data, field.offset)
      [] OTHER -> read_variant_from(result, data, Bounds(field), endianness, RustType(field.ty))

\* for field in &self.descriptor.fields, from field i on.  read counts the
\* fields whose bytes were read.
RECURSIVE UnpackLoop(_, _, _, _, _)
UnpackLoop(result, data, fields, i, endianness) ==
    IF i > Len(fields) THEN [tag |-> "Ok", result |-> result, read |-> i - 1]
    ELSE LET r == UnpackField(result, data, fields[i], endianness)
         IN  IF r.tag = "Panic" THEN [tag |-> "Panic", read |-> i]
             ELSE UnpackLoop(r.result, data, fields, i + 1, endianness)

\* The size check refusing only a buffer that is too short.
size_mismatch_short(len, size) == len < size

\* if data.len() != self.descriptor.size { return Err(()) }
size_mismatch(len, size) == len # size

\* unpack_impl(&self, data): Ok(result), Err(()) or the panic of unwrap().
unpack_impl(descriptor, data) ==
    IF size_mismatch(Len(data), descriptor.size) THEN [tag |-> "Err", read |-> 0]
    ELSE UnpackLoop(<<>>, data, descriptor.fields, 1, descriptor.endianness)

\* Pack::unpack(&self, data) -> Variant; a panic of unpack_impl unwinds
\* through it.
unpack_match(r) ==
    CASE r.tag = "Ok" -> [kind |-> "Array", values |-> r.result]
      [] r.tag = "Err" -> Nil
      [] r.tag = "Panic" -> [kind |-> "Panic"]

unpack(descriptor, data) == unpack_match(unpack_impl(descriptor, data))

(***************************************************************************)
(* The state: the build (target_endian, overflow checks), the Pack object  *)
(* made by Pack::from, and the last call on it with what it returned.      *)
(***************************************************************************)
Endiannesses == {"LittleEndian", "BigEndian"}

NoCall == [op |-> "none"]

\* The layout specification draws both build profiles on one target (the
\* target's byte order moves no offset).  The other specifications draw no
\* digit run that overflows and fix the profile; the numeric one draws both
\* targets, the codec one a little-endian target and the directive ">".
InitBuild(targets, profiles) ==
    /\ native \in targets
    /\ overflow_checks \in profiles
    /\ self = [from |-> "NotCalled"]
    /\ call = NoCall

Init == InitBuild({"LittleEndian"}, {FALSE})

InitNumeric == InitBuild(Endiannesses, {FALSE})

InitLayout == InitBuild({"LittleEndian"}, BOOLEAN)

\* Pack::from(format): Some(Pack { descriptor, original }) when sequence_from
\* returns Ok, None when it returns Err; a panic of sequence_from unwinds
\* through it.
from(format, nat, checks) ==
    LET r == sequence_from(format, nat, checks)
    IN  CASE r.tag = "Ok" -> [from |-> "Some", original |-> format,
                              descriptor |-> r.descriptor]
          [] r.tag = "Err" -> [from |-> "None", original |-> format]
          [] r.tag = "Panic" -> [from |-> "Panic", original |-> format]

From(formats) ==
    /\ self.from = "NotCalled"
    /\ \E format \in formats : self' = from(format, native, overflow_checks)
    /\ UNCHANGED <<native, overflow_checks, call>>

(***************************************************************************)
(* The layout specification: Pack::from on every format string of up to    *)
(* MaxLayoutLen characters over the field and pad tokens, two directives,  *)
(* two digits and a character that is no token, and on digit runs up to    *)
(* MaxDigitRun digits in front of a short suffix.                          *)
(***************************************************************************)
LayoutAlphabet == (Tokens \ {"@", "=", ">"}) \cup {"0", "3"} \cup {"z"}

Nines(k) == Tuple([i \in 1..k |-> "9"])

DigitRunSuffixes == {<<>>, <<"s">>, <<"x">>, <<"i">>, <<"z">>, <<"s", "s">>, <<"<", "x">>}

DigitRunFormats == {Nines(k) \o suffix : k \in 0..MaxDigitRun, suffix \in DigitRunSuffixes}

\* The twenty digits of 2^64, the smallest value a usize does not hold.
TwoTo64 ==
    <<"1", "8", "4", "4", "6", "7", "4", "4", "0", "7",
      "3", "7", "0", "9", "5", "5", "1", "6", "1", "6">>

\* 2^64 in front of a text and of a pad token.
WrapFormats == {TwoTo64 \o suffix : suffix \in {<<"s">>, <<"x">>}}

LayoutFormats == SeqsUpTo(LayoutAlphabet, MaxLayoutLen) \cup DigitRunFormats \cup WrapFormats

FromLayout == From(LayoutFormats)

NextLayout == FromLayout

SpecLayout == InitLayout /\ [][NextLayout]_vars

(***************************************************************************)
(* Calls on the Pack object.                                               *)
(***************************************************************************)
\* The value sequences of at most n + MaxExtraValues values whose i-th value
\* is drawn from cands[ty] for the type ty of field i, and from extras past
\* the last field.
RECURSIVE InputsOfLen(_, _, _, _)
InputsOfLen(fields, k, cands, extras) ==
    IF k = 0 THEN {<<>>}
    ELSE {Append(d, v) : d \in InputsOfLen(fields, k - 1, cands, extras),
                         v \in IF k <= Len(fields) THEN cands[fields[k].ty] ELSE extras}

PackInputs(fields, cands, extras) ==
    UNION {InputsOfLen(fields, k, cands, extras) : k \in 0..(Len(fields) + MaxExtraValues)}

\* self.pack(data)
PackCall(cands, extras) ==
    /\ self.from = "Some"
    /\ call.op = "none"
    /\ \E data \in PackInputs(self.descriptor.fields, cands, extras) :
          LET r == pack_impl(self.descriptor, data)
          IN  call' = [op |-> "pack", data |-> data, result |-> r,
                       returned |-> pack_match(r)]
    /\ UNCHANGED <<native, overflow_checks, self>>

\* self.unpack(buffer) on the buffer the pack call just returned; values
\* remembers what was packed.
UnpackPacked ==
    /\ self.from = "Some"
    /\ call.op = "pack"
    /\ call.returned.kind = "PackedByteArray"
    /\ LET r == unpack_impl(self.descriptor, call.returned.bytes)
       IN  call' = [op |-> "unpack", buffer |-> call.returned.bytes, result |-> r,
                    returned |-> unpack_match(r), packed |-> TRUE, values |-> call.data]
    /\ UNCHANGED <<native, overflow_checks, self>>

FillBytes == {0, 65, 255}

\* Buffers one byte shorter than size, of size and one byte longer: filled
\* with one byte, or counting up from 1.
Buffers(size) ==
    {Tuple([i \in 1..n |-> b]) : n \in {size - 1, size, size + 1} \cap Nat, b \in FillBytes}
    \cup {Tuple([i \in 1..n |-> i]) : n \in {size - 1, size, size + 1} \cap Nat}

\* self.unpack(buffer) on a buffer from elsewhere
UnpackBuffer ==
    /\ self.from = "Some"
    /\ call.op = "none"
    /\ \E buffer \in Buffers(self.descriptor.size) :
          LET r == unpack_impl(self.descriptor, buffer)
          IN  call' = [op |-> "unpack", buffer |-> buffer, result |-> r,
                       returned |-> unpack_match(r), packed |-> FALSE, values |-> <<>>]
    /\ UNCHANGED <<native, overflow_checks, self>>

\* The caller takes the returned value: the object is ready for the next call.
Return ==
    /\ call.op # "none"
    /\ call' = NoCall
    /\ UNCHANGED <<native, overflow_checks, self>>

FieldTypes ==
    {"String", "Character", "Bool", "Char", "UnsignedChar", "Short", "UnsignedShort",
     "Int", "UnsignedInt", "Long", "UnsignedLong", "LongLong", "UnsignedLongLong",
     "Float", "Double"}

\* "hello", "h", the empty text and "e-acute" (two bytes of UTF-8)
Hello == Text(<<104, 101, 108, 108, 111>>)

H == Text(<<104>>)

Empty == Text(<<>>)

EAcute == Text(<<195, 169>>)

\* The largest value of an integer type, and that plus one.
MaxOf(T) ==
    ZBytes(FALSE, Tuple([i \in 1..size_of(T) |->
                            IF i = size_of(T) /\ Signed(T) THEN 127 ELSE 255]))

AboveMaxOf(T) ==
    IF Signed(T) THEN ZBytes(FALSE, Zeros(size_of(T) - 1) \o <<128>>)
    ELSE ZBytes(FALSE, Zeros(size_of(T)) \o <<1>>)

\* The smallest value of a signed integer type.
MinOf(T) == ZBytes(TRUE, Zeros(size_of(T) - 1) \o <<128>>)

\* -2.5 (exact in f32 and f64) and 0.1 (rounded by f32)
MinusTwoAndHalf == Float(<<192, 4, 0, 0, 0, 0, 0, 0>>)

OneTenth == Float(<<63, 185, 153, 153, 153, 153, 153, 154>>)

(***************************************************************************)
(* The codec specification: formats over a short alphabet with text,       *)
(* padding, boolean, character, integer and float fields; pack on value    *)
(* sequences shorter, as long and longer than the field list; unpack on    *)
(* what pack returned and on other buffers.                                *)
(***************************************************************************)
CodecAlphabet == {">", "3", "s", "x", "?", "c", "i", "f"}

\* Two more formats: a pad of two bytes, and the little-endian directive.
MoreFormats == {<<"2", "x", "i">>, <<"<", "i">>}

CodecFormats == SeqsUpTo(CodecAlphabet, MaxFormatLen) \cup MoreFormats

CodecCandidates ==
    [ty \in FieldTypes |->
        CASE ty = "String" -> {Hello, H, EAcute}
          [] ty = "Character" -> {H, Empty}
          [] ty = "Bool" -> {Boolean(TRUE), H}
          [] ty = "Int" -> {Z(1), H}
          [] ty = "Float" -> {MinusTwoAndHalf, H}
          [] OTHER -> {}]

CodecExtras == {Z(7)}

FromCodec == From(CodecFormats)

PackCodec == PackCall(CodecCandidates, CodecExtras)

Next == FromCodec \/ PackCodec \/ UnpackPacked \/ UnpackBuffer \/ Return

Spec == Init /\ [][Next]_vars

(***************************************************************************)
(* The numeric specification: formats of the twelve fixed-width numeric    *)
(* tokens and the five byte-order directives; pack on values in and out of *)
(* each field's range; unpack on what pack returned.                       *)
(***************************************************************************)
NumericTokens == {"b", "B", "h", "H", "i", "I", "l", "L", "q", "Q", "f", "d"}

NumericAlphabet == NumericTokens \cup OrderTokens

NumericFormats == SeqsUpTo(NumericAlphabet, MaxNumericLen)

NumericCandidates ==
    [ty \in FieldTypes |->
        CASE ty \in {"Char", "Short", "Long", "LongLong"} ->
                {MinOf(RustType(ty)), AboveMaxOf(RustType(ty))}
          [] ty = "Int" -> {Z(1), MinOf("i32"), AboveMaxOf("i32")}
          [] ty \in {"UnsignedChar", "UnsignedShort", "UnsignedInt", "UnsignedLong"} ->
                {MaxOf(RustType(ty)), AboveMaxOf(RustType(ty))}
          [] ty = "UnsignedLongLong" -> {MaxOf("i64"), Z(-1)}
          [] ty \in {"Float", "Double"} -> {MinusTwoAndHalf, OneTenth}
          [] OTHER -> {}]

\* The numeric specification packs no value past the last field.
NumericExtras == {}

FromNumeric == From(NumericFormats)

PackNumeric == PackCall(NumericCandidates, NumericExtras)

NextNumeric == FromNumeric \/ PackNumeric \/ UnpackPacked \/ Return

SpecNumeric == InitNumeric /\ [][NextNumeric]_vars

(***************************************************************************)
(* Properties of the format compiler (specification SpecLayout).           *)
(***************************************************************************)
Compiled == self.from = "Some"

\* Everything the scan of the format emitted, padding included.
Entries == Scan(self.original, native, overflow_checks).entries

\* The position among the entries of the k-th entry that is a field.
FieldEntry(entries, k) ==
    CHOOSE j \in 1..Len(entries) :
        /\ entries[j].kind = "field"
        /\ Cardinality({i \in 1..j : entries[i].kind = "field"}) = k

\* C1: in every compiled descriptor each field's offset is the sum of the
\* lengths of the fields and pad entries before it in the format, its length
\* is that of its entry, the total size is the sum of all the lengths, and
\* the fields' byte ranges [offset, offset + length) follow one another
\* with strictly increasing offsets and without overlap.
C1_LayoutOffsets ==
    Compiled =>
        LET fields == self.descriptor.fields
            entries == Entries
        IN  /\ Len(fields) = Cardinality({j \in 1..Len(entries) : entries[j].kind = "field"})
            /\ \A k \in 1..Len(fields) :
                  LET j == FieldEntry(entries, k)
                  IN  /\ fields[k].length = entries[j].length
                      /\ fields[k].offset = SumLengths(SubSeq(entries, 1, j - 1))
            /\ self.descriptor.size = SumLengths(entries)
            /\ \A k \in 1..(Len(fields) - 1) :
                  /\ fields[k].offset < fields[k + 1].offset
                  /\ fields[k].offset + fields[k].length <= fields[k + 1].offset
            /\ \A k \in 1..Len(fields) :
                  fields[k].offset + fields[k].length <= self.descriptor.size

\* C1 witness: "i3s" compiles to a text field of three bytes right behind the
\* integer, seven bytes in all.
C1_Witness ==
    /\ Compiled
    /\ self.original = <<"i", "3", "s">>
    /\ Len(self.descriptor.fields) = 2
    /\ self.descriptor.fields[2].offset = 4
    /\ self.descriptor.size = 7

\* C5: a format string holding a character that is neither a digit nor a
\* token makes the compile return its error (Pack::from returns None, no
\* descriptor), wherever the character stands.
C5_InvalidCharacterFails ==
    (/\ self.from # "NotCalled"
     /\ \E i \in 1..Len(self.original) : self.original[i] \notin (Digits \cup Tokens))
        => self.from = "None"

\* C5, for the formats whose digit runs stay within usize: the same, reached
\* on "3z" and on an invalid character behind a valid field.
C5_InvalidCharacterFailsShortRuns ==
    (/\ self.from # "NotCalled"
     /\ Len(self.original) <= MaxLayoutLen
     /\ \E i \in 1..Len(self.original) : self.original[i] \notin (Digits \cup Tokens))
        => self.from = "None"

\* The positions of the format whose token emits a field or a pad.
EmittingPositions(format) ==
    {p \in 1..Len(format) : format[p] \in {"s", "x"} \cup FixedTokens}

\* The entry the token at position p emitted.
EntryOf(format, p) == Cardinality({q \in EmittingPositions(format) : q <= p})

\* Where the run of consecutive digits that ends right before position p starts
\* (p itself when no digit stands before p).
RECURSIVE RunStart(_, _)
RunStart(format, p) ==
    IF p > 1 /\ format[p - 1] \in Digits THEN RunStart(format, p - 1) ELSE p

\* The decimal value of the digits at positions lo..hi (0 for none), counted
\* no further than U16_MAX + 1: every larger value clamps alike.
RECURSIVE DecimalValue(_, _, _)
DecimalValue(format, lo, hi) ==
    IF hi < lo THEN 0
    ELSE Min(DecimalValue(format, lo, hi - 1) * 10 + to_digit(format[hi]), U16_MAX + 1)

\* The length a digit run declares for the s or x at position p: its decimal
\* value clamped to 1..U16_MAX.
DeclaredLength(format, p) ==
    Max(1, Min(DecimalValue(format, RunStart(format, p), p - 1), U16_MAX))

\* The longest run of consecutive digits in the format.
LongestRun(format) ==
    LET ends == {p \in 1..(Len(format) + 1) : p = Len(format) + 1 \/ format[p] \notin Digits}
    IN  Max(0, CHOOSE n \in {p - RunStart(format, p) : p \in ends} :
                   \A p \in ends : p - RunStart(format, p) <= n)

\* Every s and x of the compiled format has the length its digit run declares.
DeclaredLengthsKept ==
    /\ Compiled
    /\ Len(Entries) = Cardinality(EmittingPositions(self.original))
    /\ \A p \in EmittingPositions(self.original) :
          self.original[p] \in {"s", "x"} =>
              /\ Entries[EntryOf(self.original, p)].length = DeclaredLength(self.original, p)
              /\ Entries[EntryOf(self.original, p)].kind
                    = IF self.original[p] = "s" THEN "field" ELSE "pad"

\* The format holds digits and tokens only.
ValidFormat == \A i \in 1..Len(self.original) : self.original[i] \in (Digits \cup Tokens)

\* C11: the length of every s and x is the decimal value of the run of digits
\* right before it (0 without one) clamped to 1..65535, for digit runs of any
\* length and value; the pending length starts again from 0 after every
\* token, so digits in front of a fixed-width token or a directive reach no
\* s or x behind it.
C11_DigitRunLengths ==
    (self.from # "NotCalled" /\ ValidFormat) => DeclaredLengthsKept

\* The most decimal digits every value of which a usize holds (10^19 < 2^64).
UsizeDigits == 19

\* C11, for the formats whose digit runs have at most UsizeDigits digits: the
\* same, reached on "0s", "3s", "33x", "3is", "3<x" and on runs of 9s that
\* clamp to 65535.
C11_DigitRunLengthsWithinUsize ==
    (self.from # "NotCalled" /\ ValidFormat /\ LongestRun(self.original) <= UsizeDigits)
        => DeclaredLengthsKept

\* A compiled format of which some s or x has not the length its digit run
\* declares: the wrapped run of a build without overflow checks.
C11_WrappedLength ==
    ~(Compiled /\ ValidFormat /\ ~DeclaredLengthsKept)

(***************************************************************************)
(* Properties of the numeric codec (specification SpecNumeric).            *)
(***************************************************************************)
IsNumeric(ty) == ty \notin {"String", "Character", "Bool"}

\* The format holds only fixed-width numeric tokens and byte-order directives.
NumericOnly(format) == \A i \in 1..Len(format) : format[i] \in NumericTokens \cup OrderTokens

\* The value is of the field's numeric type: a Godot int within the range of
\* an integer type, a Godot float that an f32 field holds without rounding.
Representable(v, ty) ==
    LET T == RustType(ty)
    IN  IF T \in IntegerTypes THEN v.kind = "Int" /\ InRange(v, T)
        ELSE /\ v.kind = "Float"
             /\ (T = "f32" => F32ToF64(F64ToF32(v.bits)) = v.bits)

RoundTripInput(values) ==
    /\ Compiled
    /\ NumericOnly(self.original)
    /\ Len(values) = Len(self.descriptor.fields)
    /\ \A i \in 1..Len(values) : Representable(values[i], self.descriptor.fields[i].ty)

RECURSIVE LastOrder(_, _)
LastOrder(format, nat) ==
    IF format = <<>> THEN nat
    ELSE LET c == format[Len(format)]
         IN  CASE c \in {"@", "="} -> nat
               [] c = "<" -> "LittleEndian"
               [] c \in {">", "!"} -> "BigEndian"
               [] OTHER -> LastOrder(SubSeq(format, 1, Len(format) - 1), nat)

\* The bytes of a value of type T in the given order.
OrderedBytes(T, value, order) ==
    IF order = "BigEndian" THEN Reverse(to_le_bytes(T, value)) ELSE to_le_bytes(T, value)

\* C3: the descriptor carries the order of the last directive of the format
\* (native without one); pack writes, and unpack reads, every integer and
\* float field in that order, the fields in front of the directive too.
\* ">i" packs 1 as 0,0,0,1 and "<i" as 1,0,0,0.
C3_SingleByteOrder ==
    LET order == LastOrder(self.original, native)
    IN  /\ Compiled => self.descriptor.endianness = order
        /\ (call.op = "pack" /\ call.result.tag = "Ok") =>
              \A i \in 1..Min(Len(call.data), Len(self.descriptor.fields)) :
                  LET f == self.descriptor.fields[i]
                      T == RustType(f.ty)
                  IN  IsNumeric(f.ty) =>
                        Slice(call.result.output, f.offset, f.offset + f.length)
                            = OrderedBytes(T, try_to_relaxed(call.data[i], T).value, order)
        /\ (call.op = "unpack" /\ call.result.tag = "Ok") =>
              \A i \in 1..Len(self.descriptor.fields) :
                  LET f == self.descriptor.fields[i]
                      T == RustType(f.ty)
                      bytes == Slice(call.buffer, f.offset, f.offset + f.length)
                  IN  IsNumeric(f.ty) =>
                        call.result.result[i]
                            = to_variant(T, from_le_bytes(T, IF order = "BigEndian"
                                                             THEN Reverse(bytes) ELSE bytes))
        /\ (call.op = "pack" /\ self.original = <<">", "i">> /\ call.data = <<Z(1)>>) =>
              call.returned = [kind |-> "PackedByteArray", bytes |-> <<0, 0, 0, 1>>]
        /\ (call.op = "pack" /\ self.original = <<"<", "i">> /\ call.data = <<Z(1)>>) =>
              call.returned = [kind |-> "PackedByteArray", bytes |-> <<1, 0, 0, 0>>]

\* C3 witness: on a little-endian host a directive behind the field made
\* the field big-endian.
C3_Witness ==
    /\ call.op = "pack"
    /\ native = "LittleEndian"
    /\ self.original = <<"i", "!">>
    /\ call.data = <<Z(1)>>
    /\ call.returned = [kind |-> "PackedByteArray", bytes |-> <<0, 0, 0, 1>>]

(***************************************************************************)
(* Properties of the codec (specification Spec).                           *)
(***************************************************************************)
Fields == self.descriptor.fields

\* The fields that pack pairs with a value of data.
Paired(data) == 1..Min(Len(data), Len(Fields))

\* Field i is an integer or float field and data[i] does not convert to its type.
FailsCoercion(data, i) ==
    /\ IsNumeric(Fields[i].ty)
    /\ ~try_to_relaxed(data[i], RustType(Fields[i].ty)).ok

\* The bytes of field i in a buffer.
FieldBytes(buffer, i) == Slice(buffer, Fields[i].offset, Fields[i].offset + Fields[i].length)

\* C4: unpack of a buffer whose length is not the descriptor's size, shorter
\* or longer, fails before any field is read and returns no values; a buffer
\* of the descriptor's size passes the size check.  "<i" refuses 3 bytes and
\* accepts 4.
C4_SizeMismatch ==
    call.op = "unpack" =>
        /\ Len(call.buffer) # self.descriptor.size =>
              /\ call.result = [tag |-> "Err", read |-> 0]
              /\ call.returned = Nil
        /\ Len(call.buffer) = self.descriptor.size => call.result.tag # "Err"
        /\ self.original = <<"<", "i">> =>
              (call.returned.kind = "Array" <=> Len(call.buffer) = 4)

\* C4 witness: "<i" refused a buffer of 5 bytes.
C4_Witness ==
    /\ call.op = "unpack"
    /\ self.original = <<"<", "i">>
    /\ Len(call.buffer) = 5
    /\ call.returned = Nil

\* C6: when the value paired with an integer or float field does not convert
\* to the field's type, the pack call fails and returns no buffer, whatever
\* was written for the fields before it.
C6_CoercionFailureFailsPack ==
    (call.op = "pack" /\ \E i \in Paired(call.data) : FailsCoercion(call.data, i)) =>
        /\ call.result = [tag |-> "Err"]
        /\ call.returned = Nil

\* C6 witness: "ii" with 1 and a text: the first field converts, the second
\* does not, and the call returned nil.
C6_Witness ==
    /\ call.op = "pack"
    /\ self.original = <<"i", "i">>
    /\ call.data = <<Z(1), H>>
    /\ ~FailsCoercion(call.data, 1)
    /\ FailsCoercion(call.data, 2)
    /\ call.returned = Nil

\* C7: unpack of a buffer of the right size in which the bytes of a text
\* field are not valid UTF-8 returns a failure (nil) to the caller: it does
\* not end abnormally.
C7_InvalidUtf8Fails ==
    (/\ call.op = "unpack"
     /\ Len(call.buffer) = self.descriptor.size
     /\ \E i \in 1..Len(Fields) :
            Fields[i].ty = "String" /\ ~Utf8Valid(FieldBytes(call.buffer, i)))
        => /\ call.result.tag = "Err"
           /\ call.returned = Nil

\* What pack_impl writes for value v in field i of an otherwise empty buffer.
WrittenAlone(v, i) ==
    FieldBytes(PackField(v, Zeros(self.descriptor.size), Fields[i],
                         self.descriptor.endianness).slice, i)

\* Pack pairs value i with field i, ignores the values past the last field
\* and leaves the fields past the last value zero.
PairsInOrder(data, output) ==
    /\ Len(output) = self.descriptor.size
    /\ \A i \in Paired(data) : FieldBytes(output, i) = WrittenAlone(data[i], i)
    /\ \A i \in 1..Len(Fields) : i > Len(data) => AllZero(FieldBytes(output, i))
    /\ Len(data) > Len(Fields) =>
          [tag |-> "Ok", output |-> output]
              = pack_impl(self.descriptor, SubSeq(data, 1, Len(Fields)))

\* C8 as stated: with more or fewer values than fields pack raises no error
\* and returns a buffer of the descriptor's size, the extra values ignored,
\* the fields without a value zero.
C8_CountMismatchNeverFails ==
    (call.op = "pack" /\ Len(call.data) # Len(Fields)) =>
        /\ call.result.tag = "Ok"
        /\ PairsInOrder(call.data, call.result.output)

\* C8 as amended: the value count raises no error.  Pack fails exactly when
\* a paired value does not convert to its integer or float field; otherwise,
\* with more, fewer or as many values as fields, it returns a buffer of the
\* descriptor's size with value i in field i, the extra values ignored and
\* the fields without a value zero.
C8_CountMismatchPermitted ==
    call.op = "pack" =>
        /\ call.result.tag = "Err" <=> \E i \in Paired(call.data) : FailsCoercion(call.data, i)
        /\ call.result.tag = "Ok" => PairsInOrder(call.data, call.result.output)

\* C8 witness: "if" with the single value 1: the call returned 8 bytes, the
\* second field zero; the values do not cover the fields.
C8_Witness ==
    /\ call.op = "pack"
    /\ self.original = <<"i", "f">>
    /\ call.data = <<Z(1)>>
    /\ call.result.tag = "Ok"
    /\ Len(call.result.output) = 8
    /\ FieldBytes(call.result.output, 2) = <<0, 0, 0, 0>>

\* data with value i replaced by the empty text.
WithEmpty(data, i) == [data EXCEPT ![i] = Empty]

\* buffer with the bytes of field i set to zero.
FieldZeroed(buffer, i) == CopyInto(buffer, Fields[i].offset, Zeros(Fields[i].length))

\* C9: for a text field of length L paired with a value whose text is n bytes
\* long, the field starts with the first min(n, L) bytes of the text and
\* ends with L - min(n, L) zero bytes; the rest of the buffer is what it is
\* without that text; and the text, however long, fails no pack call.  "3s"
\* packs "hello" as "hel" and "h" as "h", 0, 0.
C9_TextTruncation ==
    call.op = "pack" =>
        /\ call.result.tag = "Ok" =>
              \A i \in Paired(call.data) :
                  Fields[i].ty = "String" =>
                      LET bytes == to_string(call.data[i])
                          m == Min(Len(bytes), Fields[i].length)
                      IN  /\ FieldBytes(call.result.output, i)
                                = SubSeq(bytes, 1, m) \o Zeros(Fields[i].length - m)
                          /\ [tag |-> "Ok", output |-> FieldZeroed(call.result.output, i)]
                                = pack_impl(self.descriptor, WithEmpty(call.data, i))
        /\ call.result.tag = "Err" => \E i \in Paired(call.data) : FailsCoercion(call.data, i)
        /\ (self.original = <<"3", "s">> /\ call.data = <<Hello>>) =>
              call.returned = [kind |-> "PackedByteArray", bytes |-> <<104, 101, 108>>]
        /\ (self.original = <<"3", "s">> /\ call.data = <<H>>) =>
              call.returned = [kind |-> "PackedByteArray", bytes |-> <<104, 0, 0>>]

\* C9 witness: ">si" with "hello" and 1: the one-byte text field holds "h"
\* and the integer behind it is intact.
C9_Witness ==
    /\ call.op = "pack"
    /\ self.original = <<">", "s", "i">>
    /\ call.data = <<Hello, Z(1)>>
    /\ call.returned = [kind |-> "PackedByteArray", bytes |-> <<104, 0, 0, 0, 1>>]

\* The tokens that emit a field.
FieldTokens == {"s"} \cup FixedTokens

\* The positions (from 1) of a buffer that no field covers: the padding.
PadPositions ==
    {p \in 1..self.descriptor.size :
        \A i \in 1..Len(Fields) : ~(Fields[i].offset < p /\ p <= Fields[i].offset + Fields[i].length)}

\* buffer with every pad byte set to zero.
PadsZeroed(buffer) ==
    Tuple([p \in 1..Len(buffer) |-> IF p \in PadPositions THEN 0 ELSE buffer[p]])

\* C10: padding takes offset space and is no field.  The descriptor has one
\* field per field token of the format; pack pairs the values with those
\* fields only and leaves every pad byte zero; unpack returns one value per
\* field whatever the pad bytes hold.  "2xi" has size 6 and its one field at
\* offset 2.
C10_PaddingIsNoField ==
    /\ Compiled =>
          /\ Len(Fields) = Cardinality({i \in 1..Len(self.original) :
                                           self.original[i] \in FieldTokens})
          /\ self.original = <<"2", "x", "i">> =>
                /\ self.descriptor.size = 6
                /\ Len(Fields) = 1
                /\ Fields[1].offset = 2
    /\ (call.op = "pack" /\ call.result.tag = "Ok") =>
          /\ \A p \in PadPositions : call.result.output[p] = 0
          /\ PadPositions # {} =>
                \A i \in Paired(call.data) :
                    FieldBytes(call.result.output, i) = WrittenAlone(call.data[i], i)
    /\ (call.op = "unpack" /\ call.result.tag = "Ok") =>
          /\ Len(call.result.result) = Len(Fields)
          /\ PadPositions # {} =>
                call.result = unpack_impl(self.descriptor, PadsZeroed(call.buffer))

\* C10 witness: "2xi" unpacked six bytes 65 into the one value 0x41414141.
C10_Witness ==
    /\ call.op = "unpack"
    /\ self.original = <<"2", "x", "i">>
    /\ call.buffer = <<65, 65, 65, 65, 65, 65>>
    /\ call.returned = [kind |-> "Array", values |-> <<ZBytes(FALSE, <<65, 65, 65, 65>>)>>]

====
